---- MODULE Spec2Model ----
(***************************************************************************)
(* Model of Taller5.py: a command-line book catalogue kept in a            *)
(* KeyDB/Redis store.  One string key "libro:<id>" per book holds the      *)
(* book as JSON text; the set key "libros:ids" holds the ids of all books. *)
(* The menu loop of main() dispatches to agregar_libro, listar_libros,     *)
(* marcar_como_leido and eliminar_libro.                                   *)
(*                                                                         *)
(* Python strings are sequences of one-character strings.  None is the     *)
(* empty tuple <<>> and a present optional value v is <<v>>.               *)
(***************************************************************************)
EXTENDS Integers, Sequences, FiniteSets, TLC

VARIABLES
    db,     \* the store's string keys: key -> JSON text
    idx,    \* the members of the store's set key ALL_BOOKS_KEY
    used,   \* the ids uuid4() has returned so far
    pc,     \* "menu" (awaiting a selection), "exited", "crashed"
    last,   \* what the last menu action did (inputs, store calls, message)
    borrados \* history: the books eliminar_libro removed, each with the id
             \* fragment typed, when no other indexed id ended with it

vars == <<db, idx, used, pc, last, borrados>>

----------------------------------------------------------------------------
(* Bounds and input samples *)

\* adds that reach the id generation in one run
MaxAdds == 2

\* number of characters of an id shown to the user and asked back
ID_SHOWN == 5

KEY_PREFIX == "libro:"

\* uuid4() results: str(uuid4()) cut down to 6 characters; ids sharing their
\* trailing 5 characters exist, as among real UUIDs
UUIDs ==
    {<<"a", "0", "0", "0", "0", "7">>,
     <<"b", "0", "0", "0", "0", "7">>,
     <<"a", "0", "0", "0", "0", "8">>}

Whitespace == {" "}
Digits == <<"0", "1", "2", "3", "4", "5", "6", "7", "8", "9">>

\* what the user types at the four prompts of agregar_libro
Formulario(titulo, autor, anio, genero) ==
    [titulo |-> titulo, autor |-> autor, anio |-> anio, genero |-> genero]

Formularios ==
    {Formulario(<<" ", "D", " ">>, <<"H", " ">>, <<"1", "9">>, <<"S", " ">>),
     Formulario(<<"E">>, <<"H">>, <<"1", "x">>, <<" ">>),
     Formulario(<<" ">>, <<"H">>, <<"1", "9">>, <<"S">>),
     Formulario(<<"D">>, <<>>, <<>>, <<>>)}

\* what the user types at the menu prompt
OpcionInputs == {<<"1">>, <<"2">>, <<" ", "3">>, <<"4">>, <<"5", " ">>,
                 <<"9">>, <<>>}

----------------------------------------------------------------------------
(* Python string helpers *)

RECURSIVE LStrip(_)
LStrip(s) ==
    IF s # <<>> /\ Head(s) \in Whitespace THEN LStrip(Tail(s)) ELSE s

RECURSIVE RStrip(_)
RStrip(s) ==
    IF s # <<>> /\ s[Len(s)] \in Whitespace
    THEN RStrip(SubSeq(s, 1, Len(s) - 1))
    ELSE s

\* str.strip()
Strip(s) == RStrip(LStrip(s))

\* str.endswith(suffix)
EndsWith(s, suffix) ==
    /\ Len(suffix) <= Len(s)
    /\ SubSeq(s, Len(s) - Len(suffix) + 1, Len(s)) = suffix

\* s[-5:]
Last5(s) ==
    IF Len(s) <= ID_SHOWN THEN s ELSE SubSeq(s, Len(s) - ID_SHOWN + 1, Len(s))

\* str.isdigit() on ASCII input
IsDigit(s) ==
    /\ s # <<>>
    /\ \A i \in 1..Len(s) : \E d \in 1..10 : Digits[d] = s[i]

DigitValue(c) == (CHOOSE d \in 1..10 : Digits[d] = c) - 1

\* int(s) for a digit-only s
RECURSIVE ParseInt(_)
ParseInt(s) ==
    IF s = <<>> THEN 0
    ELSE 10 * ParseInt(SubSeq(s, 1, Len(s) - 1)) + DigitValue(s[Len(s)])

\* anio = int(anio) if anio.isdigit() else None
ParseAnio(s) == IF IsDigit(s) THEN <<ParseInt(s)>> ELSE <<>>

\* genero if genero else None
GeneroOrNone(g) == IF g # <<>> THEN <<g>> ELSE <<>>

----------------------------------------------------------------------------
(* JSON codec: a JSON object is the sequence of its members, each a key    *)
(* and a JSON value tagged string, number, true, false or null.            *)

JString(s) == [t |-> "string", v |-> s]
JNumber(n) == [t |-> "number", v |-> n]
JNull == [t |-> "null"]
JBool(b) == IF b THEN [t |-> "true"] ELSE [t |-> "false"]

JOptNumber(o) == IF o = <<>> THEN JNull ELSE JNumber(o[1])
JOptString(o) == IF o = <<>> THEN JNull ELSE JString(o[1])

\* json.dumps(libro)
Dumps(libro) ==
    << <<"id", JString(libro.id)>>,
       <<"titulo", JString(libro.titulo)>>,
       <<"autor", JString(libro.autor)>>,
       <<"anio_publicacion", JOptNumber(libro.anio_publicacion)>>,
       <<"genero", JOptString(libro.genero)>>,
       <<"leido", JBool(libro.leido)>> >>

Member(text, name) ==
    text[CHOOSE i \in 1..Len(text) : text[i][1] = name][2]

FromJOpt(j) == IF j.t = "null" THEN <<>> ELSE <<j.v>>

\* json.loads(text)
Loads(text) ==
    [id |-> Member(text, "id").v,
     titulo |-> Member(text, "titulo").v,
     autor |-> Member(text, "autor").v,
     anio_publicacion |-> FromJOpt(Member(text, "anio_publicacion")),
     genero |-> FromJOpt(Member(text, "genero")),
     leido |-> Member(text, "leido").t = "true"]

----------------------------------------------------------------------------
(* Store commands on the pair (db, idx) *)

\* f"{KEY_PREFIX}{libro_id}"
Key(id) == <<KEY_PREFIX, id>>

\* SET key value
Set(d, key, value) ==
    [k \in DOMAIN d \cup {key} |-> IF k = key THEN value ELSE d[k]]

\* GET key: the value, or None
Get(d, key) == IF key \in DOMAIN d THEN <<d[key]>> ELSE <<>>

\* DEL key: the store without the key
Delete(d, key) == [k \in DOMAIN d \ {key} |-> d[k]]

\* DEL key: the number of keys removed
DeletedCount(d, key) == IF key \in DOMAIN d THEN 1 ELSE 0

\* a variant that overwrites the set with the member
SAddReplaces(s, member) == {member}

\* SADD ALL_BOOKS_KEY member
SAdd(s, member) == s \cup {member}

\* a variant that leaves the set as it is
SRemNothing(s, member) == s

\* SREM ALL_BOOKS_KEY member
SRem(s, member) == s \ {member}

\* SMEMBERS returns the members in an order the store chooses; the set is
\* not written between the SMEMBERS calls of one menu action, which get the
\* same order
Orders(s) ==
    {o \in [1..Cardinality(s) -> s] :
        \A i, j \in 1..Cardinality(s) : o[i] = o[j] => i = j}

----------------------------------------------------------------------------
(* Store failures: the en-th store call of a menu action raises (0: none   *)
(* does).  A writing command that raises on the client (a timeout, a lost   *)
(* reply) may or may not have been applied by the server: aplicado.  The   *)
(* calls numbered in escrituras are the writing ones.                      *)

Fallas(n, escrituras) ==
    [en : 0..n, aplicado : {FALSE}] \cup [en : escrituras, aplicado : {TRUE}]

None == <<>>

Reverse(q) == [i \in 1..Len(q) |-> q[Len(q) + 1 - i]]

RECURSIVE SelectPresent(_)
SelectPresent(q) ==
    IF q = <<>> THEN <<>>
    ELSE IF Head(q) # None
         THEN <<Loads(Head(q)[1])>> \o SelectPresent(Tail(q))
         ELSE SelectPresent(Tail(q))

\* listar_libros without its store failures: the books in the order shown,
\* orden being the order SMEMBERS returned the ids in
Listado(d, orden) ==
    LET all_keys == [i \in 1..Len(orden) |-> Key(orden[i])]
        libros_json_list == [i \in 1..Len(all_keys) |-> Get(d, all_keys[i])]
    IN  Reverse(SelectPresent(libros_json_list))

\* listar_libros: calls 1 (SMEMBERS) and 2 (MGET) of the action; nothing
\* catches what they raise.  MGET of no keys is answered with no values.
ListarLibros(d, orden, falla) ==
    IF falla.en = 1
    THEN [raised |-> TRUE, calls |-> <<"SMEMBERS">>, libros |-> <<>>]
    ELSE IF falla.en = 2
    THEN [raised |-> TRUE, calls |-> <<"SMEMBERS", "MGET">>, libros |-> <<>>]
    ELSE [raised |-> FALSE, calls |-> <<"SMEMBERS", "MGET">>,
          libros |-> Listado(d, orden)]

\* next((_id for _id in all_ids if _id.endswith(id_parcial)), None)
PrimerId(orden, id_parcial) ==
    LET hits == {i \in 1..Len(orden) : EndsWith(orden[i], id_parcial)}
    IN  IF hits = {} THEN None
        ELSE <<orden[CHOOSE i \in hits : \A j \in hits : i <= j]>>

\* buscar_libro_por_id_parcial without its store failures: None, or the
\* pair of the decoded book and its key
Encontrado(d, orden, id_parcial) ==
    LET libro_id_completo == PrimerId(orden, id_parcial)
    IN  IF libro_id_completo = None THEN None
        ELSE LET key == Key(libro_id_completo[1])
                 libro_json == Get(d, key)
             IN  IF libro_json # None
                 THEN <<Loads(libro_json[1]), key>>
                 ELSE None

\* buscar_libro_por_id_parcial: calls n (SMEMBERS) and n + 1 (GET) of the
\* action; what they raise goes to the caller
BuscarLibroPorIdParcial(d, orden, id_parcial, falla, n) ==
    IF falla.en = n
    THEN [raised |-> TRUE, calls |-> <<"SMEMBERS">>, res |-> None]
    ELSE IF PrimerId(orden, id_parcial) = None
    THEN [raised |-> FALSE, calls |-> <<"SMEMBERS">>, res |-> None]
    ELSE IF falla.en = n + 1
    THEN [raised |-> TRUE, calls |-> <<"SMEMBERS", "GET">>, res |-> None]
    ELSE [raised |-> FALSE, calls |-> <<"SMEMBERS", "GET">>,
          res |-> Encontrado(d, orden, id_parcial)]

----------------------------------------------------------------------------
(* agregar_libro *)

\* a variant that asks for the title alone
CamposValidosSoloTitulo(titulo, autor) == titulo # <<>>

\* a variant that rejects only when both fields are empty
CamposValidosAlguno(titulo, autor) == titulo # <<>> \/ autor # <<>>

\* the guard of line 53, negated: both required fields are present
CamposValidos(titulo, autor) == titulo # <<>> /\ autor # <<>>

\* a variant with title and author exchanged
NuevoLibroCambiado(libro_id, titulo, autor, anio, genero) ==
    [id |-> libro_id,
     titulo |-> autor,
     autor |-> titulo,
     anio_publicacion |-> anio,
     genero |-> GeneroOrNone(genero),
     leido |-> FALSE]

\* the dictionary nuevo_libro
NuevoLibro(libro_id, titulo, autor, anio, genero) ==
    [id |-> libro_id,
     titulo |-> titulo,
     autor |-> autor,
     anio_publicacion |-> anio,
     genero |-> GeneroOrNone(genero),
     leido |-> FALSE]

\* agregar_libro on the inputs form, uuid being the uuid4() result (None when
\* the handler returns before asking for it)
AgregarLibro(d, s, form, uuid, falla) ==
    LET titulo == Strip(form.titulo)
        autor == Strip(form.autor)
    IN  IF ~CamposValidos(titulo, autor)
        THEN [db |-> d, idx |-> s, outcome |-> "campos_vacios",
              calls |-> <<>>]
        ELSE
        LET anio == ParseAnio(form.anio)
            genero == Strip(form.genero)
            libro_id == uuid[1]
            nuevo_libro == NuevoLibro(libro_id, titulo, autor, anio, genero)
            libro_json == Dumps(nuevo_libro)
            key == Key(libro_id)
        IN  IF falla.en = 1
            THEN [db |-> IF falla.aplicado THEN Set(d, key, libro_json) ELSE d,
                  idx |-> s, outcome |-> "error", calls |-> <<"SET">>]
            ELSE IF falla.en = 2
            THEN [db |-> Set(d, key, libro_json),
                  idx |-> IF falla.aplicado THEN SAdd(s, libro_id) ELSE s,
                  outcome |-> "error", calls |-> <<"SET", "SADD">>]
            ELSE [db |-> Set(d, key, libro_json),
                  idx |-> SAdd(s, libro_id),
                  outcome |-> "ok", calls |-> <<"SET", "SADD">>]

----------------------------------------------------------------------------
(* marcar_como_leido *)

\* a variant that never sees the flag
YaLeidoNunca(libro) == FALSE

\* libro.get('leido', False)
YaLeido(libro) == libro.leido

\* a variant that loses the genre on the way
ActualizadoSinGenero(libro, leido) ==
    Dumps([libro EXCEPT !.leido = leido, !.genero = <<>>])

\* actualizar_libro(libro, key, leido=True): the value written under key
Actualizado(libro, leido) == Dumps([libro EXCEPT !.leido = leido])

\* marcar_como_leido: entrada is what the user types at its prompt
MarcarComoLeido(d, s, orden, entrada, falla) ==
    LET lst == ListarLibros(d, orden, falla)
        id_parcial == Strip(entrada)
        b == BuscarLibroPorIdParcial(d, orden, id_parcial, falla, 3)
        sofar == lst.calls \o b.calls
        base == [db |-> d, idx |-> s, sfx |-> id_parcial, found |-> None]
    IN  IF lst.raised
        THEN [base EXCEPT !.sfx = None] @@
             [outcome |-> "uncaught", calls |-> lst.calls]
        ELSE IF id_parcial = <<>>
        THEN base @@ [outcome |-> "id_vacio", calls |-> lst.calls]
        ELSE IF b.raised
        THEN base @@ [outcome |-> "error", calls |-> sofar]
        ELSE IF b.res = None
        THEN base @@ [outcome |-> "no_encontrado", calls |-> sofar]
        ELSE
        LET libro == b.res[1]
            key == b.res[2]
            hit == [base EXCEPT !.found = <<libro.id>>]
            written == Set(d, key, Actualizado(libro, TRUE))
        IN  IF YaLeido(libro)
            THEN hit @@ [outcome |-> "ya_leido", calls |-> sofar]
            ELSE IF falla.en = 5
            THEN [hit EXCEPT !.db = IF falla.aplicado THEN written ELSE d] @@
                 [outcome |-> "error", calls |-> Append(sofar, "SET")]
            ELSE [hit EXCEPT !.db = written] @@
                 [outcome |-> "ok", calls |-> Append(sofar, "SET")]

----------------------------------------------------------------------------
(* eliminar_libro *)

EliminarLibro(d, s, orden, entrada, falla) ==
    LET lst == ListarLibros(d, orden, falla)
        id_parcial == Strip(entrada)
        b == BuscarLibroPorIdParcial(d, orden, id_parcial, falla, 3)
        sofar == lst.calls \o b.calls
        base == [db |-> d, idx |-> s, sfx |-> id_parcial, found |-> None]
    IN  IF lst.raised
        THEN [base EXCEPT !.sfx = None] @@
             [outcome |-> "uncaught", calls |-> lst.calls]
        ELSE IF id_parcial = <<>>
        THEN base @@ [outcome |-> "id_vacio", calls |-> lst.calls]
        ELSE IF b.raised
        THEN base @@ [outcome |-> "error", calls |-> sofar]
        ELSE IF b.res = None
        THEN base @@ [outcome |-> "no_encontrado", calls |-> sofar]
        ELSE
        LET libro == b.res[1]
            key == b.res[2]
            hit == [base EXCEPT !.found = <<libro.id>>]
            deleted_count == DeletedCount(d, key)
        IN  IF falla.en = 5
            THEN [hit EXCEPT !.db = IF falla.aplicado THEN Delete(d, key) ELSE d]
                 @@ [outcome |-> "error", calls |-> Append(sofar, "DEL")]
            ELSE IF ~(deleted_count > 0)
            THEN [hit EXCEPT !.db = Delete(d, key)] @@
                 [outcome |-> "no_eliminada", calls |-> Append(sofar, "DEL")]
            ELSE IF falla.en = 6
            THEN [hit EXCEPT !.db = Delete(d, key),
                             !.idx = IF falla.aplicado
                                     THEN SRem(s, libro.id) ELSE s] @@
                 [outcome |-> "error", calls |-> sofar \o <<"DEL", "SREM">>]
            ELSE [hit EXCEPT !.db = Delete(d, key), !.idx = SRem(s, libro.id)]
                 @@ [outcome |-> "ok", calls |-> sofar \o <<"DEL", "SREM">>]

----------------------------------------------------------------------------
(* The menu loop of main() *)

\* what the user types at the prompts of marcar_como_leido and eliminar_libro:
\* blanks, the 5 characters shown of an id, a whole id
IdInputs ==
    {<<" ">>, <<" ", "b", "0", "0", "0", "0", "7">>}
    \cup {Last5(u) : u \in UUIDs}

\* opcion = input(...).strip() selects the branch of the menu
Elige(opcion) == \E o \in OpcionInputs : Strip(o) = opcion

OpcionesValidas == {<<"1">>, <<"2">>, <<"3">>, <<"4">>, <<"5">>}

\* uuid4() when agregar_libro reaches it: an id never returned before
Uuid4(form) ==
    IF CamposValidos(Strip(form.titulo), Strip(form.autor))
    THEN {<<u>> : u \in IF Cardinality(used) < MaxAdds
                         THEN UUIDs \ used ELSE {}}
    ELSE {None}

\* id is the only member of s that ends with sufijo
SoloTerminaEn(s, id, sufijo) ==
    /\ id \in s
    /\ EndsWith(id, sufijo)
    /\ \A j \in s \ {id} : ~EndsWith(j, sufijo)

Sin == [op |-> "inicio", outcome |-> "", calls |-> <<>>, sfx |-> None,
        found |-> None, nuevo |-> None, form |-> None]

\* an exception nothing catches ends the process
Sigue(outcome) == IF outcome = "uncaught" THEN "crashed" ELSE "menu"

Init ==
    /\ db = << >>
    /\ idx = {}
    /\ used = {}
    /\ pc = "menu"
    /\ last = Sin
    /\ borrados = {}

Agregar ==
    /\ pc = "menu"
    /\ Elige(<<"1">>)
    /\ \E form \in Formularios, falla \in Fallas(2, {1, 2}) :
         \E uuid \in Uuid4(form) :
           \E r \in {AgregarLibro(db, idx, form, uuid, falla)} :
               /\ db' = r.db
               /\ idx' = r.idx
               /\ used' = IF uuid = None THEN used ELSE used \cup {uuid[1]}
               /\ pc' = Sigue(r.outcome)
               /\ last' = [Sin EXCEPT !.op = "agregar",
                                      !.outcome = r.outcome,
                                      !.calls = r.calls,
                                      !.nuevo = uuid,
                                      !.form = <<form>>]
    /\ UNCHANGED borrados

Listar ==
    /\ pc = "menu"
    /\ Elige(<<"2">>)
    /\ \E orden \in Orders(idx), falla \in Fallas(2, {}) :
         LET r == ListarLibros(db, orden, falla)
             outcome == IF r.raised THEN "uncaught"
                        ELSE IF r.libros = <<>> THEN "vacia" ELSE "ok"
         IN  /\ pc' = Sigue(outcome)
             /\ last' = [Sin EXCEPT !.op = "listar",
                                    !.outcome = outcome,
                                    !.calls = r.calls]
    /\ UNCHANGED <<db, idx, used, borrados>>

Marcar ==
    /\ pc = "menu"
    /\ Elige(<<"3">>)
    /\ \E orden \in Orders(idx), entrada \in IdInputs, falla \in Fallas(5, {5}) :
         \E r \in {MarcarComoLeido(db, idx, orden, entrada, falla)} :
             /\ db' = r.db
             /\ idx' = r.idx
             /\ pc' = Sigue(r.outcome)
             /\ last' = [Sin EXCEPT !.op = "marcar",
                                    !.outcome = r.outcome,
                                    !.calls = r.calls,
                                    !.sfx = r.sfx,
                                    !.found = r.found]
    /\ UNCHANGED <<used, borrados>>

Eliminar ==
    /\ pc = "menu"
    /\ Elige(<<"4">>)
    /\ \E orden \in Orders(idx), entrada \in IdInputs, falla \in Fallas(6, {5, 6}) :
         \E r \in {EliminarLibro(db, idx, orden, entrada, falla)} :
             /\ db' = r.db
             /\ idx' = r.idx
             /\ pc' = Sigue(r.outcome)
             /\ last' = [Sin EXCEPT !.op = "eliminar",
                                    !.outcome = r.outcome,
                                    !.calls = r.calls,
                                    !.sfx = r.sfx,
                                    !.found = r.found]
             /\ borrados' =
                  IF r.outcome = "ok" /\ SoloTerminaEn(idx, r.found[1], r.sfx)
                  THEN borrados \cup {[id |-> r.found[1], sfx |-> r.sfx]}
                  ELSE borrados
    /\ UNCHANGED used

Salir ==
    /\ pc = "menu"
    /\ Elige(<<"5">>)
    /\ pc' = "exited"
    /\ last' = [Sin EXCEPT !.op = "salir", !.outcome = "adios"]
    /\ UNCHANGED <<db, idx, used, borrados>>

OpcionNoValida ==
    /\ pc = "menu"
    /\ \E o \in OpcionInputs : Strip(o) \notin OpcionesValidas
    /\ last' = [Sin EXCEPT !.op = "menu", !.outcome = "opcion_no_valida"]
    /\ UNCHANGED <<db, idx, used, pc, borrados>>

Next ==
    \/ Agregar
    \/ Listar
    \/ Marcar
    \/ Eliminar
    \/ Salir
    \/ OpcionNoValida

Spec == Init /\ [][Next]_vars

----------------------------------------------------------------------------
(* Properties *)

\* the ids that have a record key
ConClave(d) == {k[2] : k \in DOMAIN d}

Libro(d, id) == Loads(d[Key(id)])

\* the outcomes of list_all: one listing per order SMEMBERS may return
Listados(d, s) == {Listado(d, orden) : orden \in Orders(s)}

\* the outcomes of find_by_id_suffix
Hallazgos(d, s, sufijo) == {Encontrado(d, orden, sufijo) : orden \in Orders(s)}

Posiciones(q, P(_)) == {i \in 1..Len(q) : P(q[i])}

Escrituras(calls) ==
    Cardinality({i \in 1..Len(calls) : calls[i] \in {"SET", "SADD", "DEL", "SREM"}})

CamposVacios(form) == Strip(form.titulo) = <<>> \/ Strip(form.autor) = <<>>

----------------------------------------------------------------------------
\* C1: whenever the menu awaits a selection, the index set equals the set of
\* ids that have a record key, also after actions abandoned on a store error.
IndexEqualsKeys == pc = "menu" => idx = ConClave(db)

\* C2: a store error never leaves a menu action uncaught: it never ends the
\* process, the loop is back at awaiting a selection.
StoreErrorsCaught == pc # "crashed" /\ last.outcome # "uncaught"

----------------------------------------------------------------------------
\* C3, as stated: once a record was deleted through a fragment only its id
\* ended with, its key and index membership are gone, no later listing holds
\* it and every later search with that fragment finds nothing.
DeletedFragmentStaysAbsent ==
    \A b \in borrados :
        /\ b.id \notin idx
        /\ b.id \notin ConClave(db)
        /\ \A l \in Listados(db, idx) : Posiciones(l, LAMBDA x : x.id = b.id) = {}
        /\ Hallazgos(db, idx, b.sfx) = {None}

\* C3, amended: once a record was deleted through a fragment only its id ended
\* with, its key and index membership are gone, no later listing holds it, no
\* later search returns it, and a search with that fragment finds nothing
\* as long as no indexed id ends with the fragment.
DeletedRecordStaysGone ==
    \A b \in borrados :
        /\ b.id \notin idx
        /\ b.id \notin ConClave(db)
        /\ \A l \in Listados(db, idx) : Posiciones(l, LAMBDA x : x.id = b.id) = {}
        /\ \A e \in IdInputs : \A h \in Hallazgos(db, idx, Strip(e)) :
              h # None => h[1].id # b.id
        /\ (\A j \in idx : ~EndsWith(j, b.sfx)) =>
              Hallazgos(db, idx, b.sfx) = {None}

DeletedWitness ==
    /\ last.op = "eliminar"
    /\ last.outcome = "ok"
    /\ [id |-> last.found[1], sfx |-> last.sfx] \in borrados
    /\ idx # {}

----------------------------------------------------------------------------
\* C4, as stated: an add whose title or author is empty after trimming, or
\* whose year input is not a digit-only string, writes nothing to the store.
InvalidAddWritesNothing ==
    [][(/\ last'.op = "agregar"
        /\ \/ CamposVacios(last'.form[1])
           \/ ~IsDigit(last'.form[1].anio))
       => /\ db' = db
          /\ idx' = idx
          /\ last'.outcome # ""]_vars

\* C4, amended: an add whose title or author is empty after trimming leaves
\* the record keys and the index set as they were and shows the empty-field
\* error; a year input that is not digit-only is no validation failure: the
\* add goes on and the record it writes has no year.
EmptyFieldAddWritesNothing ==
    [][last'.op = "agregar" =>
        IF CamposVacios(last'.form[1])
        THEN /\ db' = db
             /\ idx' = idx
             /\ last'.outcome = "campos_vacios"
        ELSE /\ last'.outcome \in {"ok", "error"}
             /\ last'.outcome = "ok" =>
                  /\ Key(last'.nuevo[1]) \in DOMAIN db'
                  /\ ~IsDigit(last'.form[1].anio) =>
                       Libro(db', last'.nuevo[1]).anio_publicacion = None]_vars

EmptyFieldAddWitness ==
    /\ last.op = "agregar"
    /\ last.outcome = "campos_vacios"
    /\ idx # {}

----------------------------------------------------------------------------
\* C5: an add whose title or author is empty after trimming issues no store
\* command and draws no new id.
EmptyFieldAddIssuesNoCommand ==
    [][(last'.op = "agregar" /\ CamposVacios(last'.form[1]))
       => /\ last'.calls = <<>>
          /\ last'.nuevo = None
          /\ used' = used]_vars

EmptyFieldNoCommandWitness ==
    /\ last.op = "agregar"
    /\ CamposVacios(last.form[1])
    /\ Strip(last.form[1].titulo) # <<>>
    /\ used # {}

----------------------------------------------------------------------------
\* C6: mark_read is idempotent in effect.  After every mark_read that ran on
\* a record without a store error the record is read; the call that found it
\* unread wrote its value exactly once and nothing else; and the next
\* mark_read with the same fragment (no other action in between, no store
\* call of it failing) that runs on the same record, as it does whenever no
\* other indexed id ends with the fragment, reports already-read and writes
\* nothing.
MarkReadIdempotent ==
    [][last'.op = "marcar" =>
        /\ last'.outcome \in {"ok", "ya_leido"} =>
             /\ Libro(db', last'.found[1]).leido
             /\ last'.outcome = "ok" =>
                  /\ ~Libro(db, last'.found[1]).leido
                  /\ Escrituras(last'.calls) = 1
                  /\ Posiciones(last'.calls, LAMBDA c : c = "SET") # {}
        /\ (/\ last.op = "marcar"
            /\ last.outcome \in {"ok", "ya_leido"}
            /\ last'.sfx = last.sfx
            /\ last'.outcome \notin {"error", "uncaught"}
            /\ \/ SoloTerminaEn(idx, last.found[1], last.sfx)
               \/ last'.found = last.found)
           => /\ last'.found = last.found
              /\ last'.outcome = "ya_leido"
              /\ Escrituras(last'.calls) = 0
              /\ db' = db
              /\ idx' = idx]_vars

MarkReadTwiceWitness ==
    /\ last.op = "marcar"
    /\ last.outcome = "ya_leido"
    /\ Libro(db, last.found[1]).leido
    /\ SoloTerminaEn(idx, last.found[1], last.sfx)

----------------------------------------------------------------------------
\* C7: for every stored record, a search with the trailing 5 characters of
\* its id returns the record and its key, provided no other id of the index
\* set ends with these 5 characters.
EveryStoredRecordIsFound ==
    \A id \in ConClave(db) :
        (\A j \in idx \ {id} : ~EndsWith(j, Last5(id)))
        => Hallazgos(db, idx, Last5(id)) = {<<Libro(db, id), Key(id)>>}

\* The same restricted to the stored records whose id the index set holds:
\* this much of C7 holds, the rest fails on the orphan keys of C1.
EveryIndexedRecordIsFound ==
    \A id \in ConClave(db) \cap idx :
        (\A j \in idx \ {id} : ~EndsWith(j, Last5(id)))
        => Hallazgos(db, idx, Last5(id)) = {<<Libro(db, id), Key(id)>>}

----------------------------------------------------------------------------
ConTituloYAutor(l, titulo, autor) ==
    Posiciones(l, LAMBDA x : x.titulo = titulo /\ x.autor = autor)

\* C8, as stated: after a successful add of a valid title and author every
\* listing holds exactly one record with that title and author, and its id
\* is none of the ids the store held before.
AddThenListOnePerTitle ==
    [][(last'.op = "agregar" /\ last'.outcome = "ok")
       => LET titulo == Strip(last'.form[1].titulo)
              autor == Strip(last'.form[1].autor)
          IN  \A l \in Listados(db', idx') :
                /\ Cardinality(ConTituloYAutor(l, titulo, autor)) = 1
                /\ \A i \in ConTituloYAutor(l, titulo, autor) :
                     l[i].id \notin idx \cup ConClave(db) \cup used]_vars

\* C8, amended: after a successful add of a valid title and author every
\* listing holds exactly one record with the id the add generated; that
\* record carries the title and the author, is unread, and its id is none of
\* the ids generated or stored before.  Records added earlier with the same
\* title and author are listed as well.
AddThenListOnePerId ==
    [][(last'.op = "agregar" /\ last'.outcome = "ok")
       => LET titulo == Strip(last'.form[1].titulo)
              autor == Strip(last'.form[1].autor)
              nuevo == last'.nuevo[1]
          IN  /\ nuevo \notin idx \cup ConClave(db) \cup used
              /\ \A l \in Listados(db', idx') :
                   /\ Cardinality(Posiciones(l, LAMBDA x : x.id = nuevo)) = 1
                   /\ \A i \in Posiciones(l, LAMBDA x : x.id = nuevo) :
                        /\ l[i].titulo = titulo
                        /\ l[i].autor = autor
                        /\ ~l[i].leido
                   /\ \A i \in 1..Len(l) :
                        l[i].id # nuevo => l[i].id \in idx]_vars

AddThenListWitness ==
    /\ last.op = "agregar"
    /\ last.outcome = "ok"
    /\ Cardinality(idx \cap ConClave(db)) = 2

----------------------------------------------------------------------------
SinLeido(libro) ==
    <<libro.id, libro.titulo, libro.autor, libro.anio_publicacion, libro.genero>>

\* C9: while a record exists its id, title, author, year and genre never
\* change and its read flag never goes back to false; only mark_read writes
\* an existing record, and it leaves every other record, the set of record
\* keys and the index set as they were.
OnlyReadFlagChanges ==
    [][/\ db' # db =>
            \A k \in DOMAIN db \cap DOMAIN db' :
               db'[k] # db[k] =>
                 /\ k = Key(Loads(db'[k]).id)
                 /\ SinLeido(Loads(db'[k])) = SinLeido(Loads(db[k]))
                 /\ ~Loads(db[k]).leido
                 /\ Loads(db'[k]).leido
                 /\ last'.op = "marcar"
                 /\ last'.found = <<k[2]>>
       /\ last'.op = "marcar" =>
            /\ idx' = idx
            /\ DOMAIN db' = DOMAIN db]_vars

MarkedWitness ==
    /\ last.op = "marcar"
    /\ last.outcome = "ok"
    /\ Libro(db, last.found[1]).leido
    /\ Libro(db, last.found[1]).genero # None
    /\ Cardinality(DOMAIN db) = 2

----------------------------------------------------------------------------
Colgado(d, s, id) == id \in s /\ id \notin ConClave(d)

\* C10: an index member without a stored value stays one: no step removes it
\* from the index set or gives it a value, and a mark_read or delete with a
\* fragment that only this id ends with ends in not-found (or in a caught
\* store error) and writes nothing.
DanglingMemberStays ==
    [][\A id \in idx :
         Colgado(db, idx, id) =>
           /\ Colgado(db', idx', id)
           /\ (/\ last'.op \in {"marcar", "eliminar"}
               /\ last'.sfx # None
               /\ SoloTerminaEn(idx, id, last'.sfx))
              => /\ last'.outcome \in {"no_encontrado", "error"}
                 /\ last'.found = None
                 /\ Escrituras(last'.calls) = 0
                 /\ db' = db
                 /\ idx' = idx]_vars

DanglingWitness ==
    /\ last.op = "eliminar"
    /\ last.outcome = "no_encontrado"
    /\ \E id \in idx : Colgado(db, idx, id) /\ SoloTerminaEn(idx, id, last.sfx)

====
